---- MODULE Spec2Model ----
(***************************************************************************)
(* A model of instrumentator.py: the recursive key lookup search_json, the *)
(* request/response transforms, Instrumentation.__init__ and the wrappers  *)
(* produced by the nine decorator factories.                               *)
(*                                                                         *)
(* Python values are tagged records.  Numbers are kept in tenths, so the   *)
(* float 0.5 is the integer 5 and the int 2 is [t |-> "int", n |-> 20].    *)
(* An exception raised by an expression is the value Raise; a try/except   *)
(* is a test for it.                                                       *)
(***************************************************************************)
EXTENDS Integers, Sequences, FiniteSets, TLC

VARIABLES
    skey,           \* search_json: the key argument
    sobj,           \* search_json: the json_obj argument
    sres,           \* search_json: what the call produced
    spc,            \* search_json: "call" before the call, "done" after
    app,            \* the application object: class name and registered routes
    flaskInstalled, \* whether `from flask import request` succeeded
    inst,           \* the Instrumentation object being constructed
    dec,            \* the decorator factory call that produced the wrapper
    metrics,        \* the metric objects that factory call created
    calls,          \* number of wrapper invocations so far
    returned,       \* number of invocations in which the handler returned
    last            \* record of the latest wrapper invocation

vars == <<skey, sobj, sres, spc, app, flaskInstalled, inst, dec, metrics,
          calls, returned, last>>

searchVars == <<skey, sobj, sres, spc>>
appVars == <<app, flaskInstalled, inst, dec, metrics, calls, returned, last>>

-----------------------------------------------------------------------------
(* Python values *)

NoneV == [t |-> "none"]
Raise == [t |-> "raise"]
PyInt(i) == [t |-> "int", n |-> 10 * i]
PyFloat(tenths) == [t |-> "float", n |-> tenths]
PyStr(s) == [t |-> "str", s |-> s]
Dict(items) == [t |-> "dict", items |-> items]
List(elems) == [t |-> "list", elems |-> elems]
Obj(c, v) == [t |-> "obj", correctness |-> c, corrected_value |-> v]
Item(k, v) == [k |-> k, v |-> v]

IsNone(v) == v.t = "none"
IsRaise(v) == v.t = "raise"
IsNum(v) == v.t \in {"int", "float"}

\* Python ==
PyEq(a, b) ==
    IF IsNum(a) /\ IsNum(b) THEN a.n = b.n
    ELSE IF a.t = "str" /\ b.t = "str" THEN a.s = b.s
    ELSE IF a.t # b.t THEN FALSE
    ELSE a = b

\* Python >, as "T", "F" or "raise" (TypeError for unorderable operands)
PyGt(a, b) ==
    IF IsNum(a) /\ IsNum(b) THEN (IF a.n > b.n THEN "T" ELSE "F")
    ELSE IF a.t = "str" /\ b.t = "str" /\ a.s = b.s THEN "F"
    ELSE "raise"

\* Python <
PyLt(a, b) == PyGt(b, a)

Keys(d) == {d.items[i].k : i \in 1..Len(d.items)}
HasKey(d, k) == d.t = "dict" /\ k \in Keys(d)
Get(d, k) == d.items[CHOOSE i \in 1..Len(d.items) : d.items[i].k = k].v

-----------------------------------------------------------------------------
(* search_json *)

RECURSIVE search_json(_, _), SearchBody(_, _), ScanDict(_, _, _), ScanList(_, _, _)

RECURSIVE ScanDictTopLevelFirst(_, _, _)
\* a variant of ScanDict that looks at all of the dict's own keys before it
\* descends into any child
ScanDictTopLevelFirst(key, obj, i) ==
    IF HasKey(obj, key) THEN Get(obj, key)
    ELSE IF i > Len(obj.items) THEN NoneV
    ELSE LET res == search_json(key, obj.items[i].v) IN
         IF ~IsNone(res) THEN res ELSE ScanDictTopLevelFirst(key, obj, i + 1)

\* for ikey in json_obj, json_obj a dict, from the i-th key on
ScanDict(key, obj, i) ==
    IF i > Len(obj.items) THEN NoneV
    ELSE LET it == obj.items[i] IN
         IF it.k = key THEN it.v
         ELSE LET res == search_json(key, it.v) IN
              IF ~IsNone(res) THEN res ELSE ScanDict(key, obj, i + 1)

\* for ikey in json_obj, json_obj a list, from the i-th element on: a list
\* is indexed by the element itself, which raises unless the element is an
\* int within the list's bounds
ScanList(key, obj, i) ==
    IF i > Len(obj.elems) THEN NoneV
    ELSE LET e == obj.elems[i] IN
         IF PyEq(e, PyStr(key)) THEN Raise
         ELSE LET idx == e.n \div 10
                  len == Len(obj.elems)
              IN  IF e.t = "int" /\ idx < len /\ idx >= -len
                  THEN LET at == IF idx >= 0 THEN idx + 1 ELSE len + idx + 1
                           res == search_json(key, obj.elems[at])
                       IN  IF ~IsNone(res) THEN res ELSE ScanList(key, obj, i + 1)
                  ELSE Raise

\* the body of the try block
SearchBody(key, obj) ==
    CASE obj.t = "dict" -> ScanDict(key, obj, 1)
      [] obj.t = "list" -> ScanList(key, obj, 1)
      [] obj.t = "str" -> IF obj.s = "" THEN NoneV ELSE Raise
      [] OTHER -> Raise

\* a variant of search_json without the try/except
search_json_no_except(key, obj) == SearchBody(key, obj)

search_json(key, obj) ==
    LET r == SearchBody(key, obj) IN
    IF IsRaise(r) THEN NoneV ELSE r

-----------------------------------------------------------------------------
(* The request and response transforms *)

\* request.values of a Flask request: the query parameters, then the form
\* parameters they do not shadow
RequestValues(request) ==
    Dict(request.args.items \o
         SelectSeq(request.form.items, LAMBDA it : it.k \notin Keys(request.args)))

transform_request_to_json_flask(request, kwargs) ==
    IF Len(kwargs.items) > 0 THEN kwargs
    ELSE IF request.method = "POST" THEN RequestValues(request)
    ELSE request.args

transform_request_to_json_fastapi(request, kwargs) == kwargs

\* json.loads of a body: the document the text encodes, or an exception
json_loads(text) == IF text.t = "text" THEN text.doc ELSE Raise

transform_response_to_json_flask(resp_obj) ==
    IF resp_obj.t = "response" THEN json_loads(resp_obj.body) ELSE Raise

transform_response_to_json_fastapi(resp_obj) ==
    IF resp_obj.t = "dict" THEN resp_obj
    ELSE IF resp_obj.t = "response" THEN json_loads(resp_obj.body)
    ELSE Raise

\* the module-level name `request`: bound only when the flask import succeeded
RequestName(installed, request) == IF installed THEN request ELSE Raise

transform_request(transform, installed, request, kwargs) ==
    LET r == RequestName(installed, request) IN
    IF r.t = "raise" THEN Raise
    ELSE IF transform = "flask" THEN transform_request_to_json_flask(r, kwargs)
    ELSE transform_request_to_json_fastapi(r, kwargs)

transform_response(transform, resp_obj) ==
    IF transform = "flask" THEN transform_response_to_json_flask(resp_obj)
    ELSE transform_response_to_json_fastapi(resp_obj)

-----------------------------------------------------------------------------
(* Instrumentation.__init__ *)

NoInstance == [status |-> "none", transform |-> "none", selected |-> 0]

\* a variant of __init__ that registers the route before it looks at the type
Instrumentation_init_route_first(a) ==
    LET b == [a EXCEPT !.routes = Append(@, [verb |-> "route", path |-> "/metrics"])] IN
    IF a.cls = "Flask"
    THEN [app |-> b, inst |-> [status |-> "ok", transform |-> "flask", selected |-> 1]]
    ELSE IF a.cls = "FastAPI"
    THEN [app |-> b, inst |-> [status |-> "ok", transform |-> "fastapi", selected |-> 1]]
    ELSE [app |-> b, inst |-> [status |-> "error", transform |-> "none", selected |-> 0]]

\* the application and the instance after __init__(a); status "error" is the
\* raised Exception
Instrumentation_init(a) ==
    IF a.cls = "Flask"
    THEN [app |-> [a EXCEPT !.routes = Append(@, [verb |-> "route", path |-> "/metrics"])],
          inst |-> [status |-> "ok", transform |-> "flask", selected |-> 1]]
    ELSE IF a.cls = "FastAPI"
    THEN [app |-> [a EXCEPT !.routes = Append(@, [verb |-> "get", path |-> "/metrics"])],
          inst |-> [status |-> "ok", transform |-> "fastapi", selected |-> 1]]
    ELSE [app |-> a,
          inst |-> [status |-> "error", transform |-> "none", selected |-> 0]]

-----------------------------------------------------------------------------
(* The metric objects of prometheus_client *)

\* a Counter holds a count in val; a Gauge its value in val; a Histogram
\* the sum of its observations in val and their number in obs
NewMetric == [val |-> 0, obs |-> 0]

Range(seq) == {seq[i] : i \in 1..Len(seq)}

inc(m, name) == [m EXCEPT ![name].val = @ + 1]

\* Gauge.set(value) stores float(value); Histogram.observe(amount) adds the
\* amount: both raise on a value that is no number
set(m, name, value) ==
    IF IsNum(value) THEN [m EXCEPT ![name].val = value.n] ELSE Raise

observe(m, name, value) ==
    IF IsNum(value) THEN [m EXCEPT ![name].val = @ + value.n, ![name].obs = @ + 1]
    ELSE Raise

-----------------------------------------------------------------------------
(* The decorator factories and their wrappers *)

NoDecorator ==
    [kind |-> "none", key |-> "", tkey |-> "", keys |-> <<>>, values |-> <<>>,
     names |-> <<>>]

Default_threshold == PyFloat(5)

\* threshold_key = None is the empty string
Threshold(d, view) ==
    IF d.tkey # "" THEN search_json(d.tkey, view) ELSE Default_threshold

\* a policy yields [m, exc, n]: the metrics as it leaves them, the exception
\* it raised ("none" if it completed) and the number of updates it made
Done(m, n) == [m |-> m, exc |-> "none", n |-> n]
Fail(m, exc, n) == [m |-> m, exc |-> exc, n |-> n]

\* count_false_binary_feedback.wrapper, after the request transform
FeedbackPolicy(d, m, request_json) ==
    LET feedback == search_json(d.key, request_json)
        threshold == Threshold(d, request_json)
    IN  IF feedback.t # "obj" THEN Fail(m, "AttributeError", 0)
        ELSE LET neg == PyLt(feedback.correctness, PyInt(0)) IN
             IF neg = "raise" THEN Fail(m, "TypeError", 0)
             ELSE IF neg = "F" THEN Done(m, 0)
             ELSE LET gt == PyGt(feedback.corrected_value, threshold) IN
                  IF gt = "raise" THEN Fail(m, "TypeError", 0)
                  ELSE IF gt = "T" THEN Done(inc(m, "fn"), 1)
                  ELSE Done(inc(m, "fp"), 1)

RECURSIVE CountFeatureLoopNoBreak(_, _, _, _, _)
CountFeatureLoopNoBreak(d, m, request_json, i, n) ==
    IF i > Len(d.values) THEN Done(m, n)
    ELSE IF ~HasKey(request_json, d.key) THEN Fail(m, "KeyError", n)
    ELSE IF PyEq(Get(request_json, d.key), d.values[i])
         THEN CountFeatureLoopNoBreak(d, inc(m, d.names[i]), request_json, i + 1, n + 1)
         ELSE CountFeatureLoopNoBreak(d, m, request_json, i + 1, n)

\* a variant of the count_feature loop without the break
CountFeaturePolicyNoBreak(d, m, request_json) ==
    CountFeatureLoopNoBreak(d, m, request_json, 1, 0)

RECURSIVE CountFeatureLoop(_, _, _, _)
\* count_feature.wrapper: for val in values, from the i-th value on
CountFeatureLoop(d, m, request_json, i) ==
    IF i > Len(d.values) THEN Done(m, 0)
    ELSE IF ~HasKey(request_json, d.key) THEN Fail(m, "KeyError", 0)
    ELSE IF PyEq(Get(request_json, d.key), d.values[i]) THEN Done(inc(m, d.names[i]), 1)
    ELSE CountFeatureLoop(d, m, request_json, i + 1)

CountFeaturePolicy(d, m, request_json) == CountFeatureLoop(d, m, request_json, 1)

RECURSIVE GaugeFeatureLoop(_, _, _, _, _)
\* gauge_feature.wrapper: for feature in feature_keys, from the i-th on
GaugeFeatureLoop(d, m, request_json, i, n) ==
    IF i > Len(d.keys) THEN Done(m, n)
    ELSE IF ~HasKey(request_json, d.keys[i]) THEN Fail(m, "KeyError", n)
    ELSE LET m2 == set(m, d.names[i], Get(request_json, d.keys[i])) IN
         IF m2 = Raise THEN Fail(m, "ValueError", n)
         ELSE GaugeFeatureLoop(d, m2, request_json, i + 1, n + 1)

GaugeFeaturePolicy(d, m, request_json) == GaugeFeatureLoop(d, m, request_json, 1, 0)

RECURSIVE HistFeatureLoop(_, _, _, _, _)
\* hist_feature.wrapper: for feature in feature_keys, from the i-th on
HistFeatureLoop(d, m, request_json, i, n) ==
    IF i > Len(d.keys) THEN Done(m, n)
    ELSE IF ~HasKey(request_json, d.keys[i]) THEN Fail(m, "KeyError", n)
    ELSE LET m2 == observe(m, d.names[i], Get(request_json, d.keys[i])) IN
         IF m2 = Raise THEN Fail(m, "TypeError", n)
         ELSE HistFeatureLoop(d, m2, request_json, i + 1, n + 1)

HistFeaturePolicy(d, m, request_json) == HistFeatureLoop(d, m, request_json, 1, 0)

\* a variant of count_binary.wrapper that compares with >= instead of >
CountBinaryPolicyGe(d, m, resp_json) ==
    LET value == search_json(d.key, resp_json)
        threshold == Threshold(d, resp_json)
    IN  IF IsNone(value) THEN Done(m, 0)
        ELSE LET lt == PyLt(value, threshold) IN
             IF lt = "raise" THEN Fail(m, "TypeError", 0)
             ELSE IF lt = "F" THEN Done(inc(m, "pos"), 1)
             ELSE Done(inc(m, "neg"), 1)

\* a variant of count_binary.wrapper whose negative branch is no else branch
CountBinaryPolicyNoElse(d, m, resp_json) ==
    LET value == search_json(d.key, resp_json)
        threshold == Threshold(d, resp_json)
    IN  IF IsNone(value) THEN Done(inc(m, "neg"), 1)
        ELSE LET gt == PyGt(value, threshold) IN
             IF gt = "raise" THEN Fail(m, "TypeError", 0)
             ELSE IF gt = "T" THEN Done(inc(inc(m, "pos"), "neg"), 2)
             ELSE Done(inc(m, "neg"), 1)

\* count_binary.wrapper, after the response transform
CountBinaryPolicy(d, m, resp_json) ==
    LET value == search_json(d.key, resp_json)
        threshold == Threshold(d, resp_json)
    IN  IF IsNone(value) THEN Done(m, 0)
        ELSE LET gt == PyGt(value, threshold) IN
             IF gt = "raise" THEN Fail(m, "TypeError", 0)
             ELSE IF gt = "T" THEN Done(inc(m, "pos"), 1)
             ELSE Done(inc(m, "neg"), 1)

RECURSIVE CountClassesLoop(_, _, _, _, _)
\* count_classes.wrapper: for cls in class_keys, from the i-th class on;
\* iterating the keyword dictionary yields the class names
CountClassesLoop(d, m, resp_json, i, n) ==
    IF i > Len(d.keys) THEN Done(m, n)
    ELSE LET cls == d.keys[i]
             value == search_json(cls, resp_json)
         IN  IF IsNone(value) THEN CountClassesLoop(d, m, resp_json, i + 1, n)
             ELSE LET gt == PyGt(value, Threshold(d, resp_json)) IN
                  IF gt = "raise" THEN Fail(m, "TypeError", n)
                  ELSE IF gt = "T"
                       THEN CountClassesLoop(d, inc(m, cls), resp_json, i + 1, n + 1)
                       ELSE CountClassesLoop(d, m, resp_json, i + 1, n)

CountClassesPolicy(d, m, resp_json) == CountClassesLoop(d, m, resp_json, 1, 0)

RECURSIVE GaugeOutputLoop(_, _, _, _, _)
\* gauge_output.wrapper: for key in value_keys, from the i-th key on
GaugeOutputLoop(d, m, resp_json, i, n) ==
    IF i > Len(d.keys) THEN Done(m, n)
    ELSE LET value == search_json(d.keys[i], resp_json) IN
         IF IsNone(value) THEN GaugeOutputLoop(d, m, resp_json, i + 1, n)
         ELSE LET m2 == set(m, d.names[i], value) IN
              IF m2 = Raise THEN Fail(m, "ValueError", n)
              ELSE GaugeOutputLoop(d, m2, resp_json, i + 1, n + 1)

GaugeOutputPolicy(d, m, resp_json) == GaugeOutputLoop(d, m, resp_json, 1, 0)

RECURSIVE HistOutputLoop(_, _, _, _, _)
\* hist_output.wrapper and hist_output_specific.wrapper: for key in the
\* value keys, from the i-th key on
HistOutputLoop(d, m, resp_json, i, n) ==
    IF i > Len(d.keys) THEN Done(m, n)
    ELSE LET value == search_json(d.keys[i], resp_json) IN
         IF IsNone(value) THEN HistOutputLoop(d, m, resp_json, i + 1, n)
         ELSE LET m2 == observe(m, d.names[i], value) IN
              IF m2 = Raise THEN Fail(m, "TypeError", n)
              ELSE HistOutputLoop(d, m2, resp_json, i + 1, n + 1)

HistOutputPolicy(d, m, resp_json) == HistOutputLoop(d, m, resp_json, 1, 0)

HistOutputSpecificPolicy(d, m, resp_json) == HistOutputLoop(d, m, resp_json, 1, 0)

RequestKinds == {"fb", "cf", "gf", "hf"}
ResponseKinds == {"cb", "cc", "go", "ho", "hos"}

\* the view a wrapper derives once the handler has returned resp_obj
ViewOf(d, transform, installed, request, kwargs, resp_obj) ==
    IF d.kind \in RequestKinds
    THEN transform_request(transform, installed, request, kwargs)
    ELSE transform_response(transform, resp_obj)

Policy(d, m, view) ==
    CASE d.kind = "fb" -> FeedbackPolicy(d, m, view)
      [] d.kind = "cf" -> CountFeaturePolicy(d, m, view)
      [] d.kind = "gf" -> GaugeFeaturePolicy(d, m, view)
      [] d.kind = "hf" -> HistFeaturePolicy(d, m, view)
      [] d.kind = "cb" -> CountBinaryPolicy(d, m, view)
      [] d.kind = "cc" -> CountClassesPolicy(d, m, view)
      [] d.kind = "go" -> GaugeOutputPolicy(d, m, view)
      [] d.kind = "ho" -> HistOutputPolicy(d, m, view)
      [] d.kind = "hos" -> HistOutputSpecificPolicy(d, m, view)

Updates(n) == [i \in 1..n |-> "update"]

\* a variant of the wrappers that records the request-side metrics before
\* it calls the handler
WrapperMetricsFirst(d, transform, installed, m, request, kwargs, h) ==
    LET view == ViewOf(d, transform, installed, request, kwargs, h) IN
    IF d.kind \notin RequestKinds \/ IsRaise(view)
    THEN IF IsRaise(h)
         THEN [out |-> "raise", exc |-> "handler", ret |-> NoneV, view |-> Raise,
               m |-> m, trace |-> <<"func">>]
         ELSE IF IsRaise(view)
         THEN [out |-> "raise", exc |-> "transform", ret |-> NoneV, view |-> Raise,
               m |-> m, trace |-> <<"func">>]
         ELSE LET p == Policy(d, m, view) IN
              [out |-> IF p.exc # "none" THEN "raise" ELSE "return", exc |-> p.exc,
               ret |-> IF p.exc # "none" THEN NoneV ELSE h, view |-> view,
               m |-> p.m, trace |-> <<"func">> \o Updates(p.n)]
    ELSE LET p == Policy(d, m, view) IN
         IF p.exc # "none"
         THEN [out |-> "raise", exc |-> p.exc, ret |-> NoneV, view |-> view,
               m |-> p.m, trace |-> Updates(p.n)]
         ELSE IF IsRaise(h)
         THEN [out |-> "raise", exc |-> "handler", ret |-> NoneV, view |-> view,
               m |-> p.m, trace |-> Updates(p.n) \o <<"func">>]
         ELSE [out |-> "return", exc |-> "none", ret |-> h, view |-> view,
               m |-> p.m, trace |-> Updates(p.n) \o <<"func">>]

\* one invocation of the wrapper: [out, exc, ret, view, m, trace].  h is what
\* func(*args, **kwargs) does: Raise, or the object it returns
Wrapper(d, transform, installed, m, request, kwargs, h) ==
    IF IsRaise(h)
    THEN [out |-> "raise", exc |-> "handler", ret |-> NoneV, view |-> Raise,
          m |-> m, trace |-> <<"func">>]
    ELSE LET view == ViewOf(d, transform, installed, request, kwargs, h) IN
         IF IsRaise(view)
         THEN [out |-> "raise", exc |-> "transform", ret |-> NoneV, view |-> Raise,
               m |-> m, trace |-> <<"func">>]
         ELSE LET p == Policy(d, m, view) IN
              IF p.exc # "none"
              THEN [out |-> "raise", exc |-> p.exc, ret |-> NoneV, view |-> view,
                    m |-> p.m, trace |-> <<"func">> \o Updates(p.n)]
              ELSE [out |-> "return", exc |-> "none", ret |-> h, view |-> view,
                    m |-> p.m, trace |-> <<"func">> \o Updates(p.n)]

-----------------------------------------------------------------------------
(* The objects search_json is applied to *)

MaxNodes == 3

SearchKeys == {"k", "a"}
SearchLeaves == {NoneV, PyInt(1), PyInt(2), PyStr("k")}

RECURSIVE Sized(_, _, _, _), Rows(_, _, _, _)

\* the sequences of values holding n entries in all, each value one entry
\* plus the entries inside it
Rows(n, K, L, C) ==
    IF n = 0 THEN {<<>>}
    ELSE UNION {{<<v>> \o rest : v \in Sized(s, K, L, C), rest \in Rows(n - 1 - s, K, L, C)} :
                s \in 0..(n - 1)}

KeyRows(m, K) == {ks \in [1..m -> K] : \A i, j \in 1..m : i # j => ks[i] # ks[j]}

\* the values holding exactly n entries, with dict keys in K, leaves in L and
\* containers of the kinds in C
Sized(n, K, L, C) ==
    LET rows == Rows(n, K, L, C) IN
    (IF n = 0 THEN L ELSE {})
    \cup (IF "list" \in C THEN {List(r) : r \in rows} ELSE {})
    \cup UNION {{Dict([i \in 1..Len(r) |-> Item(ks[i], r[i])]) : ks \in KeyRows(Len(r), K)} :
                r \in rows}

SearchObjects ==
    UNION {Sized(n, SearchKeys, SearchLeaves, {"dict", "list"}) : n \in 0..MaxNodes}


-----------------------------------------------------------------------------
(* The application, the decorated handler and its invocations *)

MaxViewNodes == 2
MaxCalls == 2

AppClasses == {"Flask", "FastAPI", "Django"}

Decorator(kind, key, tkey, keys, values, names) ==
    [kind |-> kind, key |-> key, tkey |-> tkey, keys |-> keys, values |-> values,
     names |-> names]

\* the factory calls: count_false_binary_feedback(id, "feedback"[, "thr"]),
\* count_feature(id, "f", 1, 2, 3), count_feature(id, "f", 1, 1.0, 3),
\* gauge_feature(id, "f", "g"), hist_feature(id, buckets, "f", "g"),
\* count_binary(id, "score"[, "thr"]),
\* count_classes(id, cat="cat_score", dog="dog_score"),
\* gauge_output(id, "score", "p"), hist_output(id, buckets, "score", "p"),
\* hist_output_specific(id, score=buckets, p=buckets)
Decorators ==
    {Decorator("fb", "feedback", tk, <<>>, <<>>, <<"fp", "fn">>) : tk \in {"", "thr"}}
    \cup {Decorator("cf", "f", "", <<>>, <<PyInt(1), PyInt(2), PyInt(3)>>,
                    <<"f_1", "f_2", "f_3">>),
          Decorator("cf", "f", "", <<>>, <<PyInt(1), PyFloat(10), PyInt(3)>>,
                    <<"f_1", "f_1.0", "f_3">>)}
    \cup {Decorator(k, "", "", <<"f", "g">>, <<>>, <<"f", "g">>) : k \in {"gf", "hf"}}
    \cup {Decorator("cb", "score", tk, <<>>, <<>>, <<"pos", "neg">>) : tk \in {"", "thr"}}
    \cup {Decorator("cc", "", "", <<"cat", "dog">>,
                    <<PyStr("cat_score"), PyStr("dog_score")>>, <<"cat", "dog">>)}
    \cup {Decorator(k, "", "", <<"score", "p">>, <<>>, <<"score", "p">>) :
            k \in {"go", "ho", "hos"}}

\* the metric objects a factory call creates
NewMetrics(d) == [name \in Range(d.names) |-> NewMetric]

\* the keys and the leaves of the views a decorated handler is invoked with
ViewKeys(d) ==
    CASE d.kind = "fb" -> {"feedback", "thr"}
      [] d.kind = "cf" -> {"f", "a"}
      [] d.kind \in {"gf", "hf"} -> {"f", "g"}
      [] d.kind = "cb" -> {"score", "thr"}
      [] d.kind = "cc" -> {"cat", "cat_score", "dog_score"}
      [] OTHER -> {"score", "p"}

ViewLeaves(d) ==
    CASE d.kind = "fb" -> {Obj(PyInt(-1), PyFloat(3)), Obj(PyInt(-1), PyFloat(7)),
                           Obj(PyInt(1), PyFloat(7)), PyFloat(6)}
      [] d.kind = "cf" -> {PyInt(1), PyInt(3), PyInt(4)}
      [] d.kind \in {"gf", "hf"} -> {PyFloat(3), PyStr("x")}
      [] d.kind = "cb" -> {PyFloat(5), PyFloat(7), NoneV, PyStr("x")}
      [] d.kind = "cc" -> {PyFloat(9), PyFloat(3)}
      [] OTHER -> {PyFloat(7), NoneV, PyStr("x")}

\* the views are scalars and nested mappings
Views(d) == UNION {Sized(n, ViewKeys(d), ViewLeaves(d), {"dict"}) : n \in 0..MaxViewNodes}

Response(body) == [t |-> "response", body |-> body]
Text(doc) == [t |-> "text", doc |-> doc]
BadText == [t |-> "badtext"]

\* **kwargs of an invocation
KwargsOf ==
    [d \in Decorators |->
        IF d.kind \in RequestKinds THEN {v \in Views(d) : v.t = "dict"} ELSE {Dict(<<>>)}]

Kwargs(d) == IF d \in Decorators THEN KwargsOf[d] ELSE {}

\* the Flask request of an invocation: its method, query and form parameters
Params(d) == {Dict(<<>>), Dict(<<Item(IF d.key # "" THEN d.key ELSE d.keys[1], PyStr("x"))>>)}

Requests(d, transform) ==
    IF d.kind \in RequestKinds /\ transform = "flask"
    THEN [t : {"request"}, method : {"GET", "POST"}, args : Params(d), form : Params(d)]
    ELSE {[t |-> "request", method |-> "GET", args |-> Dict(<<>>), form |-> Dict(<<>>)]}

\* what the handler does: it raises, or returns a dict or a response object
HandlerOutcomesOf ==
    [d \in Decorators |->
        IF d.kind \in RequestKinds
        THEN {Raise, Dict(<<Item("ok", PyInt(1))>>)}
        ELSE {Raise, Response(BadText)}
             \cup {v \in Views(d) : v.t = "dict"}
             \cup {Response(Text(v)) : v \in Views(d)}]

HandlerOutcomes(d) == IF d \in Decorators THEN HandlerOutcomesOf[d] ELSE {}

NoCall ==
    [kind |-> "none", kwargs |-> NoneV, request |-> NoneV, h |-> NoneV, out |-> "none",
     exc |-> "none", ret |-> NoneV, view |-> NoneV, before |-> <<>>, trace |-> <<>>]

Init ==
    /\ skey = "k"
    /\ sobj = NoneV
    /\ sres = NoneV
    /\ spc = "off"
    /\ app \in [cls : AppClasses, routes : {<<>>}]
    /\ flaskInstalled \in BOOLEAN
    /\ app.cls = "Flask" => flaskInstalled
    /\ inst = NoInstance
    /\ dec = NoDecorator
    /\ metrics = <<>>
    /\ calls = 0
    /\ returned = 0
    /\ last = NoCall

\* Instrumentation(app)
Construct ==
    /\ inst.status = "none"
    /\ LET r == Instrumentation_init(app) IN
       /\ app' = r.app
       /\ inst' = r.inst
    /\ UNCHANGED <<flaskInstalled, dec, metrics, calls, returned, last>>
    /\ UNCHANGED searchVars

\* a decorator factory is called and its decorator applied to the handler
Decorate(d) ==
    /\ inst.status = "ok"
    /\ dec.kind = "none"
    /\ dec' = d
    /\ metrics' = NewMetrics(d)
    /\ UNCHANGED <<app, flaskInstalled, inst, calls, returned, last>>
    /\ UNCHANGED searchVars

\* the framework calls the decorated handler
CanInvoke ==
    /\ dec.kind # "none"
    /\ last.kind = "none"
    /\ calls < MaxCalls

Invoke(request, kwargs, h) ==
    /\ CanInvoke
    /\ LET w == Wrapper(dec, inst.transform, flaskInstalled, metrics, request, kwargs, h) IN
       /\ metrics' = w.m
       /\ last' = [kind |-> dec.kind, kwargs |-> kwargs, request |-> request, h |-> h,
                   out |-> w.out, exc |-> w.exc, ret |-> w.ret, view |-> w.view,
                   before |-> metrics, trace |-> w.trace]
    /\ calls' = calls + 1
    /\ returned' = IF IsRaise(h) THEN returned ELSE returned + 1
    /\ UNCHANGED <<app, flaskInstalled, inst, dec>>
    /\ UNCHANGED searchVars

\* the framework takes what the wrapper returned or raised; the request is over
Respond ==
    /\ last.kind # "none"
    /\ last' = NoCall
    /\ UNCHANGED <<app, flaskInstalled, inst, dec, metrics, calls, returned>>
    /\ UNCHANGED searchVars

Next ==
    \/ Construct
    \/ \E d \in Decorators : Decorate(d)
    \/ /\ CanInvoke
       /\ \E request \in Requests(dec, inst.transform), kwargs \in Kwargs(dec),
             h \in HandlerOutcomes(dec) :
             Invoke(request, kwargs, h)
    \/ Respond

Spec == Init /\ [][Next]_vars
-----------------------------------------------------------------------------
(* Properties of the decorated handler *)

MinOf(S) == CHOOSE x \in S : \A y \in S : x <= y

RECURSIVE Appears(_, _)
\* key is a key of the mapping v or of a mapping nested in it at any depth
Appears(key, v) ==
    /\ v.t = "dict"
    /\ \/ key \in Keys(v)
       \/ \E i \in 1..Len(v.items) : Appears(key, v.items[i].v)

\* the latest invocation: the handler returned and the wrapper derived a view
Observed == last.kind # "none" /\ ~IsRaise(last.h) /\ ~IsRaise(last.view)

Delta(name) == metrics[name].val - last.before[name].val

\* the keys the policy of decorator d looks up in the view
LookedUp(d) ==
    (IF d.key # "" THEN {d.key} ELSE {}) \cup (IF d.tkey # "" THEN {d.tkey} ELSE {})
    \cup Range(d.keys)

\* the metrics of decorator d that the value found under key k drives
DrivenBy(d, k) ==
    IF k \in Range(d.keys) THEN {d.names[i] : i \in {j \in 1..Len(d.keys) : d.keys[j] = k}}
    ELSE Range(d.names)

\* C1: whenever the wrapped handler returns a result r and a view is derived,
\* the wrapper returns exactly r to its caller, whether or not the view holds
\* the tracked keys.
C1_WrapperReturnsResult ==
    Observed => (last.out = "return" /\ last.ret = last.h)

\* C2: a looked-up key that is absent from the view is never an error: the
\* invocation raises nothing and leaves the metrics of that key unchanged.
C2_LookupMissIsNoError ==
    Observed =>
        \A k \in LookedUp(dec) :
            ~Appears(k, last.view) =>
                /\ last.out = "return"
                /\ \A name \in DrivenBy(dec, k) : metrics[name] = last.before[name]

\* C3: if the wrapped handler raises, that exception reaches the caller of
\* the wrapper and no metric of the decorator changes; in every invocation
\* the handler call comes before any metric update.
C3_HandlerFailurePropagates ==
    last.kind # "none" =>
        /\ IsRaise(last.h) =>
              /\ last.out = "raise"
              /\ last.exc = "handler"
              /\ metrics = last.before
        /\ last.trace # <<>>
        /\ last.trace[1] = "func"
        /\ \A i \in 2..Len(last.trace) : last.trace[i] = "update"
        /\ metrics # last.before => Len(last.trace) > 1

C3_Witness ==
    /\ last.kind # "none"
    /\ IsRaise(last.h)
    /\ \E name \in DOMAIN metrics : metrics[name].val > 0

\* C5: output-binary with the default threshold 0.5: when the response view
\* gives result_key the number v, exactly the positive counter goes up by 1
\* if v > 0.5 and exactly the negative counter if v <= 0.5; when result_key
\* is absent from the response view neither counter changes.
C5_OutputBinary ==
    (Observed /\ last.kind = "cb" /\ dec.tkey = "") =>
        LET v == search_json(dec.key, last.view) IN
        /\ (IsNum(v) /\ v.n > Default_threshold.n) =>
              (last.out = "return" /\ Delta("pos") = 1 /\ Delta("neg") = 0)
        /\ (IsNum(v) /\ v.n <= Default_threshold.n) =>
              (last.out = "return" /\ Delta("pos") = 0 /\ Delta("neg") = 1)
        /\ ~Appears(dec.key, last.view) =>
              (last.out = "return" /\ Delta("pos") = 0 /\ Delta("neg") = 0)

C5_Witness ==
    /\ Observed /\ last.kind = "cb" /\ dec.tkey = ""
    /\ search_json(dec.key, last.view) = Default_threshold
    /\ Delta("neg") = 1
    /\ calls = MaxCalls

\* C6: output-multiclass: each invocation increments by 1 the counter of
\* every class whose response key (the value the class map gives the class
\* name) is in the response view with a value above the threshold, each
\* class on its own, and leaves the other counters unchanged.
C6_MulticlassByResponseKey ==
    (Observed /\ last.kind = "cc") =>
        \A i \in 1..Len(dec.keys) :
            LET v == search_json(dec.values[i].s, last.view) IN
            Delta(dec.keys[i]) =
                IF IsNum(v) /\ v.n > Threshold(dec, last.view).n THEN 1 ELSE 0

\* C7: feature-count: when the request view's feature field equals some of
\* the enumerated values, exactly the counter of the first such value goes
\* up by 1 and every other counter is unchanged; when it equals none of
\* them, no counter changes.
C7_FeatureCountFirstMatch ==
    (Observed /\ last.kind = "cf" /\ HasKey(last.view, dec.key)) =>
        LET x == Get(last.view, dec.key)
            matches == {i \in 1..Len(dec.values) : PyEq(x, dec.values[i])}
        IN  /\ last.out = "return"
            /\ \A i \in 1..Len(dec.values) :
                  Delta(dec.names[i]) =
                      IF matches # {} /\ i = MinOf(matches) THEN 1 ELSE 0
            /\ \A name \in DOMAIN metrics : metrics[name].obs = 0

C7_Witness ==
    /\ Observed /\ last.kind = "cf" /\ HasKey(last.view, dec.key)
    /\ Cardinality({i \in 1..Len(dec.values) :
                       PyEq(Get(last.view, dec.key), dec.values[i])}) > 1
    /\ Delta(dec.names[1]) = 1

\* C9: constructing the facade on an application whose type name is neither
\* 'Flask' nor 'FastAPI' raises and leaves the application without any
\* route; for a recognized type exactly one /metrics route is registered and
\* the pair of transforms is selected once.
C9_ConstructionFailsBeforeRoutes ==
    inst.status # "none" =>
        IF app.cls \notin {"Flask", "FastAPI"}
        THEN inst.status = "error" /\ app.routes = <<>> /\ inst.selected = 0
        ELSE /\ inst.status = "ok"
             /\ Len(app.routes) = 1
             /\ app.routes[1].path = "/metrics"
             /\ inst.selected = 1
             /\ inst.transform = (IF app.cls = "Flask" THEN "flask" ELSE "fastapi")

C9_Witness == inst.status = "error" /\ app.cls = "Django"

\* the latest invocation of a count_binary wrapper returned normally
BinaryReturned == last.kind = "cb" /\ last.out = "return"

C10_State ==
    dec.kind = "cb" =>
        /\ metrics["pos"].val + metrics["neg"].val <= returned
        /\ BinaryReturned =>
              /\ Delta("pos") + Delta("neg") =
                    (IF IsNone(search_json(dec.key, last.view)) THEN 0 ELSE 1)
              /\ Delta("pos") >= 0
              /\ Delta("neg") >= 0

C10_Step ==
    dec.kind = "cb" =>
        /\ metrics'["pos"].val >= metrics["pos"].val
        /\ metrics'["neg"].val >= metrics["neg"].val

\* C10: output-binary: an invocation that returns normally raises positive +
\* negative by exactly 1 when result_key was found in the response view and
\* by 0 otherwise, never both counters at once; positive + negative never
\* exceeds the number of invocations in which the handler returned, and
\* neither counter ever decreases.
C10_BinaryCountersBounded == []C10_State /\ [][C10_Step]_vars

C10_Witness ==
    /\ BinaryReturned
    /\ returned = MaxCalls
    /\ metrics["pos"].val >= 1
    /\ metrics["neg"].val >= 1

-----------------------------------------------------------------------------
(* search_json on its own *)

InitSearch ==
    /\ skey \in SearchKeys
    /\ sobj \in SearchObjects
    /\ sres = NoneV
    /\ spc = "call"
    /\ app = [cls |-> "Flask", routes |-> <<>>]
    /\ flaskInstalled = TRUE
    /\ inst = NoInstance
    /\ dec = NoDecorator
    /\ metrics = <<>>
    /\ calls = 0
    /\ returned = 0
    /\ last = NoCall

Search ==
    /\ spc = "call"
    /\ sres' = search_json(skey, sobj)
    /\ spc' = "done"
    /\ UNCHANGED <<skey, sobj>>
    /\ UNCHANGED appVars

NextSearch == Search

SpecSearch == InitSearch /\ [][NextSearch]_vars

-----------------------------------------------------------------------------
(* Properties of search_json *)

RECURSIVE IsMapping(_)
\* a nested mapping: a dict whose values are scalars or nested mappings
IsMapping(v) ==
    /\ v.t = "dict"
    /\ \A i \in 1..Len(v.items) :
          LET c == v.items[i].v IN c.t # "list" /\ (c.t = "dict" => IsMapping(c))

RECURSIVE NullFree(_)
\* no key of the mapping holds None, at any depth
NullFree(v) ==
    \A i \in 1..Len(v.items) :
        LET c == v.items[i].v IN ~IsNone(c) /\ (c.t = "dict" => NullFree(c))

RECURSIVE Entries(_), EntriesFrom(_, _)
\* the entries of a mapping in depth-first pre-order: each key is followed
\* by the entries of its subtree, then by its next sibling
EntriesFrom(v, i) ==
    IF i > Len(v.items) THEN <<>>
    ELSE <<v.items[i]>> \o Entries(v.items[i].v) \o EntriesFrom(v, i + 1)

Entries(v) == IF v.t = "dict" THEN EntriesFrom(v, 1) ELSE <<>>

\* the value of the first entry with the key, None if there is none
FirstInPreorder(key, v) ==
    LET es == Entries(v)
        at == {i \in 1..Len(es) : es[i].k = key}
    IN  IF at = {} THEN NoneV ELSE es[MinOf(at)].v

RECURSIVE TopLevelFirst(_, _), FirstChild(_, _, _)
\* the lookup that prefers the mapping's own key to any nested occurrence
FirstChild(key, v, i) ==
    IF i > Len(v.items) THEN NoneV
    ELSE LET res == TopLevelFirst(key, v.items[i].v) IN
         IF ~IsNone(res) THEN res ELSE FirstChild(key, v, i + 1)

TopLevelFirst(key, v) ==
    IF v.t # "dict" THEN NoneV
    ELSE IF key \in Keys(v) THEN Get(v, key)
    ELSE FirstChild(key, v, 1)

RECURSIVE SubValues(_)
\* the values held in obj at any depth
SubValues(obj) ==
    LET kids == IF obj.t = "dict" THEN {obj.items[i].v : i \in 1..Len(obj.items)}
                ELSE IF obj.t = "list" THEN Range(obj.elems)
                ELSE {}
    IN  kids \cup UNION {SubValues(c) : c \in kids}

Searched == spc = "done"

\* C4 (as claimed): on nested mappings search is the lookup that returns
\* M[K] at once when K is a top-level key of M, even when an
\* earlier-enumerated sibling's subtree holds K, and otherwise the first
\* child's non-absent result; absent exactly when K is at no depth of M.
C4_TopLevelKeyWins ==
    (Searched /\ IsMapping(sobj) /\ NullFree(sobj)) =>
        /\ sres = TopLevelFirst(skey, sobj)
        /\ IsNone(sres) <=> ~Appears(skey, sobj)

\* C4 (amended): on nested mappings without None values search returns the
\* value of the first occurrence of K in depth-first pre-order, so a nested
\* occurrence under an earlier-enumerated sibling wins over a later
\* top-level K; the result is absent exactly when K is at no depth of M.  On
\* any nested mapping, K at no depth gives absent.
C4_FirstInPreorder ==
    (Searched /\ IsMapping(sobj)) =>
        /\ ~Appears(skey, sobj) => IsNone(sres)
        /\ NullFree(sobj) =>
              /\ sres = FirstInPreorder(skey, sobj)
              /\ IsNone(sres) <=> ~Appears(skey, sobj)

C4_Witness ==
    /\ Searched /\ IsMapping(sobj) /\ NullFree(sobj)
    /\ HasKey(sobj, skey)
    /\ sres # Get(sobj, skey)

\* C8: whatever its input (a scalar, a string, a list, a mapping, nested to
\* any depth), search returns the absent marker or a value held in the
\* input and never raises.
C8_SearchNeverRaises ==
    Searched => (~IsRaise(sres) /\ (IsNone(sres) \/ sres \in SubValues(sobj)))

C8_Witness ==
    /\ Searched
    /\ sobj.t = "list"
    /\ IsRaise(SearchBody(skey, sobj))
    /\ IsNone(sres)

====
